---- MODULE Spec2Model ----
(***************************************************************************)
(* Model of packages/ide/src/client.ts: the abstract IDE Client.           *)
(*                                                                         *)
(* The class runs on one JavaScript event loop.  Every action below is one *)
(* run-to-completion step of that loop: the synchronous prefix of a task() *)
(* call up to its first await, the continuation of task() after an await,  *)
(* or a promise reaction registered by the constructor.                    *)
(*                                                                         *)
(* Promises handed to task() as dependencies (`...after`) are either the   *)
(* external init-data promise (source 0, the `initData` getter) or the     *)
(* promise returned by an earlier task() call (source j = j-th call).      *)
(*                                                                         *)
(* The work function is taken to return a promise, as its type says; what  *)
(* it does before its first await, a nested task() call included, is the   *)
(* step of whatever it calls.  The listeners that the constructor adds for *)
(* mousemove, contextmenu, transitionend and click write none of the       *)
(* variables below.  The retry guard lives in ./retry; what block() does   *)
(* to it is taken from the specification.                                  *)
(***************************************************************************)
EXTENDS Integers, Sequences, FiniteSets, TLC

\* ---------------------------------------------------------------- bounds
MaxCalls == 2
MaxDeps == 1
MaxLoadCalls == 1

\* ---------------------------------------------------------------- inputs
Descriptions == {"A", "B"}
Durations == {100}
Values == {"v1", "v2"}
Errors == {"net down", "boom"}

VARIABLES
    tasks,              \* this.tasks: string[]
    finishedTaskCount,  \* this.finishedTaskCount
    start,              \* this.start: 0 = undefined, n = timer made by call n
    width,              \* progressElement.style.width, in percent
    backgroundColor,    \* progressElement.style.backgroundColor
    updates,            \* number of updateProgress() invocations so far
    calls,              \* the task() invocations, in call order
    owners,             \* for each entry of tasks, the call that pushed it
    queueLog,           \* the "Finished all queued tasks" log lines
    retry,              \* state of the shared retry guard (this.retry)
    initData,           \* client.initData promise
    progressElement,    \* document.querySelector("#fill") found an element
    overlay,            \* document.getElementById("overlay") found one
    msgElement,         \* overlay.querySelector(".message") found one
    lifecycle,          \* state of the initialize().then().catch() chain
    initializeCalls,    \* number of initialize() invocations
    opacity,            \* overlay.style.opacity
    classList,          \* overlay.classList
    innerText,          \* msgElement.innerText
    buttons,            \* reload buttons appended next to msgElement
    loadLog             \* what the promise handlers logged, in order

vars == << tasks, finishedTaskCount, start, width, backgroundColor, updates,
           calls, owners, queueLog, retry, initData, progressElement, overlay,
           msgElement, lifecycle, initializeCalls, opacity, classList,
           innerText, buttons, loadLog >>

orchestratorVars == << tasks, finishedTaskCount, start, width,
                       backgroundColor, updates, calls, owners, queueLog,
                       initData >>

domVars == << progressElement, overlay, msgElement >>

lifecycleVars == << lifecycle, initializeCalls, opacity, classList,
                    innerText, buttons, loadLog >>

\* ------------------------------------------------------- promise outcomes
Pending == [kind |-> "pending", val |-> ""]

Resolved(v) == [kind |-> "resolved", val |-> v]

Rejected(e) == [kind |-> "rejected", val |-> e]

\* Outcome of the promise that source s stands for: 0 is client.initData,
\* j > 0 is the promise returned by the j-th task() call.
Outcome(cs, idata, s) == IF s = 0 THEN idata ELSE cs[s].promise

Min(S) == CHOOSE x \in S : \A y \in S : x <= y

\* Promise.all(after): rejects with the first rejection, resolves with the
\* values in the order supplied once every element has resolved.
PromiseAll(aft, cs, idata) ==
    LET out(k) == Outcome(cs, idata, aft[k])
        rej == {k \in DOMAIN aft : out(k).kind = "rejected"}
    IN  IF rej # {}
        THEN [kind |-> "rejected", err |-> out(Min(rej)).val, vals |-> << >>]
        ELSE IF \A k \in DOMAIN aft : out(k).kind = "resolved"
             THEN [kind |-> "resolved", err |-> "",
                   vals |-> [k \in DOMAIN aft |-> out(k).val]]
             ELSE [kind |-> "pending", err |-> "", vals |-> << >>]

\* the dependencies waited for until all have settled, rejected or not
WaitForSettled(aft, cs, idata) ==
    IF \A k \in DOMAIN aft : Outcome(cs, idata, aft[k]).kind # "pending"
    THEN [kind |-> "resolved", err |-> "",
          vals |-> [k \in DOMAIN aft |-> Outcome(cs, idata, aft[k]).val]]
    ELSE [kind |-> "pending", err |-> "", vals |-> << >>]

\* after && after.length > 0 ? Promise.all(after) : Promise.resolve([])
WaitFor(aft, cs, idata) ==
    IF Len(aft) > 0
    THEN PromiseAll(aft, cs, idata)
    ELSE [kind |-> "resolved", err |-> "", vals |-> << >>]

\* A promise settled: every Promise.all still pending on it is re-evaluated.
\* One that has already settled keeps its outcome.
Settle(cs, idata) ==
    [k \in DOMAIN cs |->
        IF cs[k].pc = "deps" /\ cs[k].all.kind = "pending"
        THEN [cs[k] EXCEPT !.all = WaitFor(cs[k].after, cs, idata)]
        ELSE cs[k]]

\* The dependency lists a new call may be given when n calls exist.
AfterChoices(n) ==
    {aft \in UNION {[1..m -> 0..n] : m \in 0..MaxDeps} :
        \A j, k \in DOMAIN aft : j # k => aft[j] # aft[k]}

\* ------------------------------------------------------------- progress
\* style.width before the first assignment, and a quotient that is not a
\* finite number (0 / 0 or n / 0)
Unset == -1

NotFinite == -2

\* Math.round((num / den) * 100): the nearest integer, halves rounded up
MathRound100(num, den) ==
    IF den = 0 THEN NotFinite ELSE (200 * num + den) \div (2 * den)

\* updateProgress with the pending tasks alone as the denominator
updateProgressPendingOnly(el, finished, list, old) ==
    IF el THEN MathRound100(finished, Len(list)) ELSE old

\* const updateProgress = (): void => { ... }
updateProgress(el, finished, list, old) ==
    IF el THEN MathRound100(finished, Len(list) + finished) ELSE old

\* ----------------------------------------------------- task() fragments
\* a description already pending not pushed again
pushUnique(list, description) ==
    IF \E k \in DOMAIN list : list[k] = description
    THEN list
    ELSE Append(list, description)

\* push replaced by unshift
pushFront(list, description) == << description >> \o list

\* this.tasks.push(description)
push(list, description) == Append(list, description)

\* the session timer restarted by every call
sessionStartAlways(timer, n) == n

\* if (!this.start) { this.start = time(1000); }
sessionStart(timer, n) == IF timer = 0 THEN n ELSE timer

\* lastIndexOf in place of indexOf
indexOfLast(list, description) ==
    IF \E k \in DOMAIN list : list[k] = description
    THEN CHOOSE k \in DOMAIN list :
            /\ list[k] = description
            /\ \A j \in DOMAIN list : list[j] = description => j <= k
    ELSE 0

\* the head of the list taken instead of the entry of this description
indexOfHead(list, description) == IF Len(list) > 0 THEN 1 ELSE 0

\* this.tasks.indexOf(description): 1-based here, 0 for "not found"
indexOf(list, description) ==
    IF \E k \in DOMAIN list : list[k] = description
    THEN Min({k \in DOMAIN list : list[k] = description})
    ELSE 0

\* the removal left out
spliceNothing(list, index) == list

\* every entry equal to the one found removed, as by a filter
spliceAll(list, index) ==
    IF index # 0
    THEN SelectSeq(list, LAMBDA x : x # list[index])
    ELSE list

\* if (index !== -1) { this.tasks.splice(index, 1); }
splice(list, index) ==
    IF index # 0
    THEN [k \in 1..(Len(list) - 1) |->
             IF k < index THEN list[k] ELSE list[k + 1]]
    ELSE list

\* the increment left out
incrementMissing(finished) == finished

\* ++this.finishedTaskCount
increment(finished) == finished + 1

\* if (this.tasks.length === 0) { logger.info("Finished all queued tasks",
\*     field("duration", this.start), field("count", this.finishedTaskCount)); }
finishedAll(log, timer, list, finished) ==
    IF Len(list) = 0
    THEN Append(log, [duration |-> timer, count |-> finished])
    ELSE log

\* the timer cleared by every completion
sessionEndAlways(timer, list) == 0

\* the timer kept when the list empties
sessionEndMissing(timer, list) == timer

\* if (this.tasks.length === 0) { ...; this.start = undefined; }
sessionEnd(timer, list) == IF Len(list) = 0 THEN 0 ELSE timer

\* the value of the work function dropped
returnNothing(value) == Resolved("undefined")

\* return value
returnValue(value) == Resolved(value)

\* a new error thrown in place of the one caught
throwWrapped(error) == Rejected("Task failed: " \o error)

\* throw error
throwError(error) == Rejected(error)

\* the marker left out
markErrorMissing(el, color) == color

\* if (this.progressElement) { ...style.backgroundColor = "red"; }
markError(el, color) == IF el THEN "red" ELSE color

\* the message without its final period
failureTextNoPeriod(message) == "Failed to load: " \o message

\* msgElement.innerText = `Failed to load: ${error.message}.`
failureText(message) == "Failed to load: " \o message \o "."

\* ------------------------------------------------------------ the state
\* State when the constructor returns: initialize() has been invoked once and
\* its promise is pending; no task has been issued.
Constructed ==
    /\ tasks = << >>
    /\ finishedTaskCount = 0
    /\ start = 0
    /\ width = Unset
    /\ backgroundColor = ""
    /\ updates = 0
    /\ calls = << >>
    /\ owners = << >>
    /\ queueLog = << >>
    /\ retry = "Active"
    /\ initData = Pending
    /\ lifecycle = "Loading"
    /\ initializeCalls = 1
    /\ opacity = ""
    /\ classList = {}
    /\ innerText = ""
    /\ buttons = 0
    /\ loadLog = << >>

\* Constructed on a page whose overlay has its message element, with or
\* without the progress indicator.  task() reads neither overlay nor
\* msgElement.
Init ==
    /\ Constructed
    /\ progressElement \in BOOLEAN
    /\ overlay = TRUE
    /\ msgElement = TRUE

\* Constructed on any page: each of the three lookups may find nothing;
\* msgElement is looked up inside the overlay.
InitLoad ==
    /\ Constructed
    /\ progressElement \in BOOLEAN
    /\ overlay \in BOOLEAN
    /\ msgElement \in {m \in BOOLEAN : m => overlay}

\* task(description, duration, task, ...after), lines 124-137: the
\* synchronous part of the call, up to the await of the dependencies.
Task(description, duration, aft) ==
    /\ Len(calls) < MaxCalls
    /\ tasks' = push(tasks, description)
    /\ start' = sessionStart(start, Len(calls) + 1)
    /\ width' = updateProgress(progressElement, finishedTaskCount, tasks', width)
    /\ updates' = updates + 1
    /\ calls' = Append(calls,
                    [description |-> description,
                     duration |-> duration,
                     after |-> aft,
                     all |-> WaitFor(aft, calls, initData),
                     pc |-> "deps",
                     start |-> FALSE,
                     args |-> << >>,
                     work |-> Pending,
                     promise |-> Pending])
    /\ owners' = push(owners, Len(calls) + 1)
    /\ UNCHANGED << finishedTaskCount, backgroundColor, queueLog, initData >>
    /\ UNCHANGED << domVars, lifecycleVars, retry >>

\* client.initData settles (the protocol client, outside this class).
InitDataSettles(outcome) ==
    /\ initData = Pending
    /\ initData' = outcome
    /\ calls' = Settle(calls, initData')
    /\ UNCHANGED << tasks, finishedTaskCount, start, width, backgroundColor,
                    updates, owners, queueLog >>
    /\ UNCHANGED << domVars, lifecycleVars, retry >>

\* Lines 137-140: the awaited dependencies resolved; the task timer starts
\* and the work function is invoked with their values.
DepsResolved(i) ==
    /\ calls[i].pc = "deps"
    /\ calls[i].all.kind = "resolved"
    /\ calls' = [calls EXCEPT ![i].pc = "work",
                              ![i].start = TRUE,
                              ![i].args = calls[i].all.vals]
    /\ UNCHANGED << tasks, finishedTaskCount, start, width, backgroundColor,
                    updates, owners, queueLog, initData >>
    /\ UNCHANGED << domVars, lifecycleVars, retry >>

\* Lines 154-160 entered from line 137: a dependency rejected.
DepsRejected(i) ==
    /\ calls[i].pc = "deps"
    /\ calls[i].all.kind = "rejected"
    /\ backgroundColor' = markError(progressElement, backgroundColor)
    /\ calls' = Settle([calls EXCEPT ![i].pc = "threw",
                                     ![i].promise = throwError(calls[i].all.err)],
                       initData)
    /\ UNCHANGED << tasks, finishedTaskCount, start, width, updates, owners,
                    queueLog, initData >>
    /\ UNCHANGED << domVars, lifecycleVars, retry >>

\* Lines 140-153: the work function's promise resolved with value.
WorkResolves(i, value) ==
    /\ calls[i].pc = "work"
    /\ tasks' = splice(tasks, indexOf(tasks, calls[i].description))
    /\ finishedTaskCount' = increment(finishedTaskCount)
    /\ width' = updateProgress(progressElement, finishedTaskCount', tasks', width)
    /\ updates' = updates + 1
    /\ owners' = splice(owners, indexOf(tasks, calls[i].description))
    /\ queueLog' = finishedAll(queueLog, start, tasks', finishedTaskCount')
    /\ start' = sessionEnd(start, tasks')
    /\ calls' = Settle([calls EXCEPT ![i].pc = "returned",
                                     ![i].work = Resolved(value),
                                     ![i].promise = returnValue(value)],
                       initData)
    /\ UNCHANGED << backgroundColor, initData >>
    /\ UNCHANGED << domVars, lifecycleVars, retry >>

\* Lines 154-160 entered from line 140: the work function's promise rejected.
WorkRejects(i, error) ==
    /\ calls[i].pc = "work"
    /\ backgroundColor' = markError(progressElement, backgroundColor)
    /\ calls' = Settle([calls EXCEPT ![i].pc = "threw",
                                     ![i].work = Rejected(error),
                                     ![i].promise = throwError(error)],
                       initData)
    /\ UNCHANGED << tasks, finishedTaskCount, start, width, updates, owners,
                    queueLog, initData >>
    /\ UNCHANGED << domVars, lifecycleVars, retry >>

\* Lines 83-90: initialize() resolved.
InitializeResolves ==
    /\ lifecycle = "Loading"
    /\ lifecycle' = "Succeeded"
    /\ opacity' = IF overlay THEN "0" ELSE opacity
    /\ loadLog' = Append(loadLog, "Load completed")
    /\ UNCHANGED << initializeCalls, classList, innerText, buttons >>
    /\ UNCHANGED << orchestratorVars, domVars, retry >>

\* initialize() called again after a failure
InitializeRejectsRetry(message) ==
    /\ lifecycle = "Loading"
    /\ initializeCalls < 3
    /\ lifecycle' = "Loading"
    /\ initializeCalls' = initializeCalls + 1
    /\ classList' = IF overlay THEN classList \cup {"error"} ELSE classList
    /\ buttons' = IF msgElement THEN buttons + 1 ELSE buttons
    /\ innerText' = IF msgElement THEN failureText(message) ELSE innerText
    /\ loadLog' = << message, "Load completed with errors" >>
    /\ UNCHANGED opacity
    /\ UNCHANGED << orchestratorVars, domVars, retry >>

\* Lines 91-107: initialize() rejected with an error carrying message.
InitializeRejects(message) ==
    /\ lifecycle = "Loading"
    /\ lifecycle' = "Failed"
    /\ classList' = IF overlay THEN classList \cup {"error"} ELSE classList
    /\ buttons' = IF msgElement THEN buttons + 1 ELSE buttons
    /\ innerText' = IF msgElement THEN failureText(message) ELSE innerText
    /\ loadLog' = loadLog \o << message, "Load completed with errors" >>
    /\ UNCHANGED << initializeCalls, opacity >>
    /\ UNCHANGED << orchestratorVars, domVars, retry >>

\* retry.block(): reconnecting is suppressed from now on; a repeated call
\* changes nothing.
block(guard) == "Blocked"

\* the listener resuming the retries it finds blocked
UnloadFlips ==
    /\ retry' = IF retry = "Active" THEN block(retry) ELSE "Active"
    /\ UNCHANGED << orchestratorVars, domVars, lifecycleVars >>

\* Lines 76-79: the unload listener.
Unload ==
    /\ retry' = block(retry)
    /\ UNCHANGED << orchestratorVars, domVars, lifecycleVars >>

\* The steps of the task orchestrator.
Next ==
    \/ \E d \in Descriptions, t \in Durations, aft \in AfterChoices(Len(calls)) :
            Task(d, t, aft)
    \/ \E o \in {Resolved("data")} \cup {Rejected(e) : e \in Errors} :
            InitDataSettles(o)
    \/ \E i \in DOMAIN calls : DepsResolved(i)
    \/ \E i \in DOMAIN calls : DepsRejected(i)
    \/ \E i \in DOMAIN calls, v \in Values : WorkResolves(i, v)
    \/ \E i \in DOMAIN calls, e \in Errors : WorkRejects(i, e)

\* The orchestrator while initialize() is pending.  The orchestrator and the
\* load lifecycle write no variable in common, so the lifecycle steps are
\* left to SpecLoad.
Spec == Init /\ [][Next]_vars

\* The orchestrator when nothing fails: the init data, every dependency and
\* every work function resolve.
NextResolving ==
    \/ \E d \in Descriptions, t \in Durations, aft \in AfterChoices(Len(calls)) :
            Task(d, t, aft)
    \/ InitDataSettles(Resolved("data"))
    \/ \E i \in DOMAIN calls : DepsResolved(i)
    \/ \E i \in DOMAIN calls, v \in Values : WorkResolves(i, v)

\* The event loop runs every continuation whose awaited promise has
\* settled; that the awaited promises do resolve is the premise.
SpecResolving ==
    /\ Init
    /\ [][NextResolving]_vars
    /\ WF_vars(InitDataSettles(Resolved("data")))
    /\ WF_vars(\E i \in DOMAIN calls : DepsResolved(i))
    /\ WF_vars(\E i \in DOMAIN calls, v \in Values : WorkResolves(i, v))

\* The steps of the load lifecycle, with the tasks that initialize() issues
\* while it runs.
NextLoad ==
    \/ InitializeResolves
    \/ \E m \in Errors : InitializeRejects(m)
    \/ /\ Len(calls) < MaxLoadCalls
       /\ \E d \in Descriptions, t \in Durations : Task(d, t, << >>)
    \/ \E i \in DOMAIN calls : DepsResolved(i)
    \/ \E i \in DOMAIN calls, v \in Values : WorkResolves(i, v)
    \/ \E i \in DOMAIN calls, e \in Errors : WorkRejects(i, e)
    \/ Unload

SpecLoad == InitLoad /\ [][NextLoad]_vars

\* ------------------------------------------------------ kinds of steps
\* A task() call is made.
Registers == Len(calls') = Len(calls) + 1

\* Call i completes successfully.
Succeeds(i) ==
    /\ i \in DOMAIN calls
    /\ calls[i].pc = "work"
    /\ calls'[i].pc = "returned"

\* Call i fails, in its dependency wait or in its work function.
Fails(i) ==
    /\ i \in DOMAIN calls
    /\ calls[i].pc \in {"deps", "work"}
    /\ calls'[i].pc = "threw"

\* p is the integer nearest to 100 * num / den
Nearest(p, num, den) ==
    /\ 2 * (100 * num - p * den) <= den
    /\ 2 * (p * den - 100 * num) <= den

\* list without its k-th entry
Without(list, k) == SubSeq(list, 1, k - 1) \o SubSeq(list, k + 1, Len(list))

\* ---------------------------------------------------------------- C1
\* C1: whenever progress has been computed, finishedTaskCount >= 0,
\* len(tasks) >= 0, the denominator finishedTaskCount + len(tasks) is at
\* least 1, and the value written to the indicator is the integer nearest
\* to 100 * finished / (finished + pending), which lies in 0..100.
ProgressInRange ==
    /\ finishedTaskCount >= 0
    /\ Len(tasks) >= 0
    /\ updates > 0 => finishedTaskCount + Len(tasks) >= 1
    /\ (updates > 0 /\ progressElement) =>
            /\ width \in 0..100
            /\ Nearest(width, finishedTaskCount, finishedTaskCount + Len(tasks))

\* One of two tasks has finished and the indicator shows 50.
ProgressInRangeWitness ==
    /\ progressElement
    /\ finishedTaskCount = 1
    /\ Len(tasks) = 1
    /\ width = 50

\* ---------------------------------------------------------------- C2
\* C2: finishedTaskCount never decreases; a registration, a failure in the
\* dependency wait or in the work function, and the end of a session leave
\* it as it is, and a successful completion adds exactly 1, also when that
\* completion empties the pending list.
FinishedCountMonotone ==
    [][/\ finishedTaskCount' >= finishedTaskCount
       /\ Registers => finishedTaskCount' = finishedTaskCount
       /\ (\E i \in DOMAIN calls : Fails(i)) =>
              finishedTaskCount' = finishedTaskCount
       /\ (\E i \in DOMAIN calls : Succeeds(i)) =>
              finishedTaskCount' = finishedTaskCount + 1
       /\ finishedTaskCount' # finishedTaskCount =>
              \E i \in DOMAIN calls : Succeeds(i)]_vars

\* A session has ended with one task finished, a second session has begun
\* and its task has failed: the count is still 1.
FinishedCountMonotoneWitness ==
    /\ Len(calls) = 2
    /\ calls[1].pc = "returned"
    /\ calls[2].pc = "threw"
    /\ start = 2
    /\ finishedTaskCount = 1

\* ---------------------------------------------------------------- C3
\* C3: a task that fails leaves the pending list as it is, its description
\* still in it; a task that succeeds removes exactly one entry, equal to
\* its description, and leaves every other entry in place.
FailureKeepsSuccessRemovesOne ==
    [][\A i \in DOMAIN calls :
          /\ Fails(i) =>
                /\ tasks' = tasks
                /\ \E k \in DOMAIN tasks' : tasks'[k] = calls[i].description
          /\ Succeeds(i) =>
                \E k \in DOMAIN tasks :
                    /\ tasks[k] = calls[i].description
                    /\ tasks' = Without(tasks, k)]_vars

\* Two calls with one description: one has failed and the other succeeded,
\* and one entry is left.
FailureKeepsSuccessRemovesOneWitness ==
    /\ Len(calls) = 2
    /\ calls[1].description = calls[2].description
    /\ calls[1].pc = "threw"
    /\ calls[2].pc = "returned"
    /\ tasks = << calls[1].description >>

\* ---------------------------------------------------------------- C4
\* C4: between steps the session timer is set exactly when the pending
\* list is non-empty; a registration on an empty list creates it, a
\* registration on a non-empty list keeps the existing one, and a
\* completion that empties the list unsets it.
SessionTimerIffPending ==
    /\ [](start # 0 <=> Len(tasks) > 0)
    /\ [][/\ (Registers /\ Len(tasks) = 0) => start' = Len(calls')
          /\ (Registers /\ Len(tasks) > 0) => start' = start
          /\ (Len(tasks) > 0 /\ Len(tasks') = 0) => start' = 0]_vars

\* The second call found the list empty again and created a second timer.
SessionTimerIffPendingWitness ==
    /\ Len(calls) = 2
    /\ calls[1].pc = "returned"
    /\ start = 2
    /\ Len(tasks) = 1

\* ---------------------------------------------------------------- C5
\* C5: when the work function of a call rejects with error e, the promise
\* returned by task() is rejected with e itself, and the error marker of
\* the progress indicator is set.
WorkErrorRethrown ==
    \A i \in DOMAIN calls :
        calls[i].work.kind = "rejected" =>
            /\ calls[i].promise.kind = "rejected"
            /\ calls[i].promise.val = calls[i].work.val
            /\ progressElement => backgroundColor = "red"

\* The work function rejected with "net down" and the indicator is present.
WorkErrorRethrownWitness ==
    /\ progressElement
    /\ \E i \in DOMAIN calls :
           /\ calls[i].work = Rejected("net down")
           /\ calls[i].promise = Rejected("net down")
           /\ calls[i].description \in {tasks[k] : k \in DOMAIN tasks}

\* ---------------------------------------------------------------- C6
SuccessEffects ==
    \/ opacity = "0"
    \/ \E k \in DOMAIN loadLog : loadLog[k] = "Load completed"

FailureEffects ==
    \/ "error" \in classList
    \/ buttons > 0
    \/ innerText # ""
    \/ \E k \in DOMAIN loadLog : loadLog[k] = "Load completed with errors"

\* C6: initialize() is invoked once; the lifecycle goes from Loading to
\* one of Succeeded and Failed and then stays; the success effects and the
\* failure effects are never both executed; no state returns to Loading.
LoadLifecycleOneShot ==
    /\ [](/\ initializeCalls = 1
          /\ lifecycle \in {"Loading", "Succeeded", "Failed"}
          /\ lifecycle = "Loading" => ~SuccessEffects /\ ~FailureEffects
          /\ lifecycle = "Succeeded" => SuccessEffects /\ ~FailureEffects
          /\ lifecycle = "Failed" => FailureEffects /\ ~SuccessEffects)
    /\ [][/\ lifecycle # "Loading" => UNCHANGED lifecycleVars
          /\ lifecycle' # lifecycle =>
                lifecycle = "Loading" /\ lifecycle' \in {"Succeeded", "Failed"}]_vars

\* initialize() has rejected after a task of its own finished.
LoadLifecycleOneShotWitness ==
    /\ lifecycle = "Failed"
    /\ "error" \in classList
    /\ finishedTaskCount = 1

\* ---------------------------------------------------------------- C7
\* C7 as stated: when initialize() rejects with message m and the loading
\* surface is present, the surface is marked errored, the message shown is
\* "Failed to load: m." and one reload button is attached; when it resolves
\* there is no error mark, message or button.
LoadFailureShown ==
    /\ (lifecycle = "Failed" /\ overlay) =>
            /\ "error" \in classList
            /\ innerText = "Failed to load: " \o loadLog[1] \o "."
            /\ buttons = 1
    /\ lifecycle = "Succeeded" =>
            /\ "error" \notin classList
            /\ innerText = ""
            /\ buttons = 0

\* C7 as amended: the error mark needs the loading surface, the message
\* and the single reload button need the surface's message element; a
\* surface without one is marked errored and nothing else.
LoadFailureShownInMessageElement ==
    /\ lifecycle = "Failed" =>
            /\ overlay <=> "error" \in classList
            /\ msgElement =>
                  /\ innerText = "Failed to load: " \o loadLog[1] \o "."
                  /\ buttons = 1
            /\ ~msgElement => innerText = "" /\ buttons = 0
    /\ lifecycle \in {"Loading", "Succeeded"} =>
            /\ "error" \notin classList
            /\ innerText = ""
            /\ buttons = 0

\* Scenario D of the specification.
LoadFailureShownWitness ==
    /\ lifecycle = "Failed"
    /\ overlay
    /\ msgElement
    /\ loadLog[1] = "net down"
    /\ innerText = "Failed to load: net down."
    /\ buttons = 1

\* ---------------------------------------------------------------- C8
\* t is a subsequence of c
IsSubsequence(t, c) ==
    \E f \in [DOMAIN t -> DOMAIN c] :
        /\ \A j, k \in DOMAIN t : j < k => f[j] < f[k]
        /\ \A k \in DOMAIN t : c[f[k]] = t[k]

\* C8: a call appends its description at the end of the pending list in
\* the step of the call itself, before its dependencies are awaited and
\* before its work function starts; the description is in the list during
\* the whole dependency wait; and the list is a subsequence of the
\* descriptions in call order.
RegistrationInCallOrder ==
    /\ [](/\ IsSubsequence(tasks, [k \in DOMAIN calls |-> calls[k].description])
          /\ \A i \in DOMAIN calls :
                calls[i].pc = "deps" =>
                    \E k \in DOMAIN tasks : tasks[k] = calls[i].description)
    /\ [][Registers =>
            /\ tasks' = tasks \o << calls'[Len(calls')].description >>
            /\ calls'[Len(calls')].pc = "deps"
            /\ ~calls'[Len(calls')].start
            /\ calls'[Len(calls')].promise = Pending]_vars

\* A then B were called; A is still waiting for init data that has not
\* arrived, B is already running.
RegistrationInCallOrderWitness ==
    /\ Len(calls) = 2
    /\ tasks = << "A", "B" >>
    /\ calls[1].pc = "deps"
    /\ calls[1].all.kind = "pending"
    /\ calls[2].pc = "work"

\* ---------------------------------------------------------------- C9
\* C9 as stated: progress is recomputed at registration, at successful
\* completion and at failure, where the error marker is set as well.
ProgressRecomputedOnFailure ==
    [][/\ Registers => updates' = updates + 1
       /\ \A i \in DOMAIN calls :
             /\ Succeeds(i) => updates' = updates + 1
             /\ Fails(i) =>
                   /\ updates' = updates + 1
                   /\ progressElement => backgroundColor' = "red"]_vars

\* C9 as amended: progress is recomputed at registration and at successful
\* completion; a failure sets the error marker and computes nothing, and
\* the indicator keeps its value, which is the one for the current
\* finishedTaskCount and pending-list length.
ProgressRecomputedOnSuccessOnly ==
    /\ [][/\ Registers => updates' = updates + 1
          /\ \A i \in DOMAIN calls :
                /\ Succeeds(i) => updates' = updates + 1
                /\ Fails(i) =>
                      /\ updates' = updates
                      /\ width' = width
                      /\ progressElement => backgroundColor' = "red"]_vars
    /\ []((updates > 0 /\ progressElement) =>
              Nearest(width, finishedTaskCount, finishedTaskCount + Len(tasks)))

\* One task has finished and one has failed: two registrations and one
\* success have computed progress, the failure has not.
ProgressRecomputedWitness ==
    /\ progressElement
    /\ \E i, j \in DOMAIN calls :
           calls[i].pc = "threw" /\ calls[j].pc = "returned"
    /\ backgroundColor = "red"
    /\ updates = 3
    /\ width = 50

\* --------------------------------------------------------------- C10
Returned == {i \in DOMAIN calls : calls[i].pc = "returned"}

\* A then B were called, both without dependencies.
ScenarioB ==
    /\ Len(calls) = 2
    /\ calls[1].description = "A" /\ calls[1].after = << >>
    /\ calls[2].description = "B" /\ calls[2].after = << >>

\* C10: the counts and the progress follow from the number of calls that
\* have succeeded, whichever they are; with A then B called, B finishing
\* first gives pending = [A], finished = 1, progress = 50, and A finishing
\* after it gives pending = [], finished = 2, progress = 100.
CompletionOrderFree ==
    /\ finishedTaskCount = Cardinality(Returned)
    /\ Len(tasks) = Len(calls) - Cardinality(Returned)
    /\ (updates > 0 /\ progressElement) =>
            Nearest(width, Cardinality(Returned), Len(calls))
    /\ (ScenarioB /\ Returned = {2}) =>
            /\ tasks = << "A" >>
            /\ finishedTaskCount = 1
            /\ progressElement => width = 50
    /\ (ScenarioB /\ Returned = {1}) =>
            /\ tasks = << "B" >>
            /\ finishedTaskCount = 1
            /\ progressElement => width = 50
    /\ (ScenarioB /\ Returned = {1, 2}) =>
            /\ tasks = << >>
            /\ finishedTaskCount = 2
            /\ progressElement => width = 100

\* B has finished before A, which is still running.
CompletionOrderFreeWitness ==
    /\ ScenarioB
    /\ progressElement
    /\ calls[2].pc = "returned"
    /\ calls[1].pc = "work"
    /\ tasks = << "A" >>
    /\ width = 50

\* --------------------------------------------------------------- C11
\* The n calls issued have all finished.
AllFinished(n) ==
    /\ Len(calls) = n
    /\ tasks = << >>
    /\ finishedTaskCount = n
    /\ start = 0
    /\ progressElement => width = 100

\* C11: when the init data, every dependency and every work function
\* resolve, n issued calls lead to a further call or to the state with an
\* empty pending list, finishedTaskCount = n, progress 100 and no session
\* timer; a single call without dependencies that has returned leaves
\* pending = [], finished = 1, progress = 100.
AllResolveAllFinish ==
    /\ \A n \in 1..MaxCalls :
           (Len(calls) = n) ~> (Len(calls) > n \/ AllFinished(n))
    /\ []((/\ Len(calls) = 1
           /\ calls[1].after = << >>
           /\ calls[1].pc = "returned") => AllFinished(1))

\* Two calls, the second waiting for the first, have both finished.
AllResolveAllFinishWitness ==
    /\ progressElement
    /\ Len(calls) = 2
    /\ calls[2].after = << 1 >>
    /\ calls[2].pc = "returned"
    /\ AllFinished(2)

\* --------------------------------------------------------------- C12
\* The work function of call i has been invoked.
Invoked(i) ==
    \/ calls[i].pc \in {"work", "returned"}
    \/ calls[i].work.kind # "pending"

OtherFailed(i) == \E j \in DOMAIN calls : j # i /\ calls[j].pc = "threw"

\* C13: the failure of call j changes no other call, except that a call
\* waiting for j learns of the rejection, and changes neither the pending
\* list nor the count nor the session timer; after a failure a call whose
\* dependencies have resolved can still start its work function and one
\* whose work function resolves can still complete, and when it does it
\* returns the value of its work function, removes one entry equal to its
\* description and adds 1 to finishedTaskCount.
FailureLeavesOthersAlone ==
    /\ [][\A j \in DOMAIN calls :
             Fails(j) =>
                /\ tasks' = tasks
                /\ finishedTaskCount' = finishedTaskCount
                /\ start' = start
                /\ \A i \in DOMAIN calls \ {j} :
                      /\ calls'[i].pc = calls[i].pc
                      /\ calls'[i].work = calls[i].work
                      /\ calls'[i].promise = calls[i].promise
                      /\ (\A k \in DOMAIN calls[i].after : calls[i].after[k] # j)
                            => calls'[i] = calls[i]]_vars
    /\ [][\A i \in DOMAIN calls :
             (OtherFailed(i) /\ Succeeds(i)) =>
                /\ calls'[i].work.kind = "resolved"
                /\ calls'[i].promise = Resolved(calls'[i].work.val)
                /\ finishedTaskCount' = finishedTaskCount + 1
                /\ \E k \in DOMAIN tasks :
                      /\ tasks[k] = calls[i].description
                      /\ tasks' = Without(tasks, k)]_vars
    /\ [](\A i \in DOMAIN calls :
             OtherFailed(i) =>
                /\ calls[i].pc = "work" =>
                      \A v \in Values : ENABLED WorkResolves(i, v)
                /\ (calls[i].pc = "deps" /\ calls[i].all.kind = "resolved") =>
                      ENABLED DepsResolved(i))

\* A failed in its work function; B, called after it, returned "v2".
FailureLeavesOthersAloneWitness ==
    /\ Len(calls) = 2
    /\ calls[1].description = "A"
    /\ calls[1].work = Rejected("net down")
    /\ calls[2].description = "B"
    /\ calls[2].work = Resolved("v2")
    /\ calls[2].promise = Resolved("v2")
    /\ tasks = << "A" >>
    /\ finishedTaskCount = 1

\* --------------------------------------------------------------- C14
\* C14: a successful completion removes the earliest entry that equals the
\* description of the completing call, whichever call pushed that entry,
\* and the entries left keep their order; with the same description
\* pending twice, the entry removed is the one of the earlier call also
\* when it is the later call that completes.
FirstMatchRemoved ==
    [][\A i \in DOMAIN calls :
          Succeeds(i) =>
             \E k \in DOMAIN tasks :
                /\ tasks[k] = calls[i].description
                /\ \A j \in 1..(k - 1) : tasks[j] # calls[i].description
                /\ tasks' = Without(tasks, k)
                /\ owners' = Without(owners, k)
                /\ owners[k] = Min({owners[j] : j \in
                        {m \in DOMAIN tasks : tasks[m] = calls[i].description}})]_vars

\* A was called twice; the second call has returned and the first is still
\* running, yet the entry left is the one the second call pushed.
FirstMatchRemovedWitness ==
    /\ Len(calls) = 2
    /\ calls[1].description = "A"
    /\ calls[2].description = "A"
    /\ calls[1].pc = "work"
    /\ calls[2].pc = "returned"
    /\ tasks = << "A" >>
    /\ owners = << 2 >>

\* --------------------------------------------------------------- C15
\* C15: when a completion empties the pending list, the line logged
\* carries the session timer and, as its count, the number of calls that
\* completed since the list last became non-empty, that is, of the calls
\* from the one that created the session timer onwards.
FinishedAllLogsBurstCount ==
    [][Len(queueLog') = Len(queueLog) + 1 =>
          /\ queueLog'[Len(queueLog')].duration = start
          /\ queueLog'[Len(queueLog')].count =
                Cardinality({i \in DOMAIN calls' :
                                /\ i >= start
                                /\ calls'[i].pc = "returned"})]_vars

\* --------------------------------------------------------------- C17
\* C17: the retry guard starts Active, is Blocked by the unload listener,
\* stays Blocked from then on, also when the listener runs again, and is
\* changed by no step of task() or of the load lifecycle.
RetryGuardMonotone ==
    /\ retry = "Active"
    /\ [](retry \in {"Active", "Blocked"})
    /\ [][retry = "Blocked" => retry' = "Blocked"]_vars
    /\ [][retry' # retry =>
            /\ retry = "Active"
            /\ retry' = "Blocked"
            /\ UNCHANGED << orchestratorVars, lifecycleVars >>]_vars
    /\ [][(calls' # calls \/ lifecycle' # lifecycle) => retry' = retry]_vars

\* The guard was blocked and a task and the load have finished since or
\* before: it is still blocked.
RetryGuardMonotoneWitness ==
    /\ retry = "Blocked"
    /\ lifecycle = "Succeeded"
    /\ finishedTaskCount = 1

\* --------------------------------------------------------------- C18
\* Number of entries of list equal to d
Count(list, d) == Cardinality({k \in DOMAIN list : list[k] = d})

\* C18: len(tasks) + finishedTaskCount is the number of task() calls made
\* so far, and for every description the pending list holds as many
\* entries as there are calls of that description in flight or failed.
TasksConserved ==
    /\ Len(tasks) + finishedTaskCount = Len(calls)
    /\ \A d \in Descriptions :
           Count(tasks, d) =
               Cardinality({i \in DOMAIN calls :
                               /\ calls[i].description = d
                               /\ calls[i].pc \in {"deps", "work", "threw"}})

\* Of two calls one is running and one has failed in its
\* dependency wait: both are pending and none has finished.
TasksConservedWitness ==
    /\ Len(calls) = 2
    /\ calls[1].pc = "work"
    /\ calls[2].pc = "threw"
    /\ ~calls[2].start
    /\ Len(tasks) = 2
    /\ finishedTaskCount = 0

\* --------------------------------------------------------------- C19
\* Some call has failed.
SomeFailed == \E i \in DOMAIN calls : calls[i].pc = "threw"

\* C19: once a call has failed the pending list is never empty again, the
\* session timer stays the one it was and is never cleared, the "finished
\* all queued tasks" line is never logged again, and finishedTaskCount is
\* below the number of calls.
FailureIsPermanent ==
    /\ [](SomeFailed =>
            /\ Len(tasks) > 0
            /\ start # 0
            /\ finishedTaskCount < Len(calls))
    /\ [][SomeFailed =>
            /\ Len(tasks') > 0
            /\ start' = start
            /\ queueLog' = queueLog]_vars

\* The first call failed and the second, called in the same session,
\* succeeded: the timer of the first call is still set and nothing was
\* logged.
FailureIsPermanentWitness ==
    /\ Len(calls) = 2
    /\ calls[1].pc = "threw"
    /\ calls[2].pc = "returned"
    /\ start = 1
    /\ queueLog = << >>
    /\ finishedTaskCount = 1
    /\ Len(tasks) = 1

\* --------------------------------------------------------------- C20
\* C20: for every description d the pending list holds as many entries d
\* as calls with d were made minus those that completed; a call that has
\* not settled finds its description in the list, so the lookup at its
\* completion succeeds and the list shrinks by exactly one.
LookupNeverFails ==
    /\ [](/\ \A d \in Descriptions :
                Count(tasks, d) =
                    Cardinality({i \in DOMAIN calls : calls[i].description = d})
                    - Cardinality({i \in Returned : calls[i].description = d})
          /\ \A i \in DOMAIN calls :
                calls[i].pc \in {"deps", "work"} =>
                    Count(tasks, calls[i].description) >= 1)
    /\ [][\A i \in DOMAIN calls :
             Succeeds(i) =>
                /\ Count(tasks, calls[i].description) >= 1
                /\ Len(tasks') = Len(tasks) - 1]_vars

\* B was called twice; one call has completed and the other is about to.
LookupNeverFailsWitness ==
    /\ Len(calls) = 2
    /\ calls[1].description = "B"
    /\ calls[2].description = "B"
    /\ calls[1].pc = "returned"
    /\ calls[2].pc = "work"
    /\ tasks = << "B" >>

====
